---- MODULE Spec2Model ----
(***************************************************************************)
(* The front end of the ez language: the pull-based Lexer (lexer.rs), the  *)
(* recursive-descent Parser on top of it (parser.rs) and the driver loop   *)
(* (main.rs).  Source text is a sequence of one-character strings; cursor  *)
(* positions are 0-based as in the Rust code, so the character under the   *)
(* cursor is content[pos + 1].                                             *)
(***************************************************************************)
EXTENDS Integers, Sequences, FiniteSets, TLC

VARIABLES content, pos, current, rets, pc, stdout

vars == <<content, pos, current, rets, pc, stdout>>

(***************************************************************************)
(* Bounds of the model.                                                    *)
(***************************************************************************)
MaxLen == 4
MaxSymLen == 2
MaxLetters == 4
MaxAbsent == 2

(***************************************************************************)
(* Character classes (std::char).                                          *)
(***************************************************************************)
NoChar == ""

is_ascii_digit(c) == c \in {"0", "1", "2", "3", "4", "5", "6", "7", "8", "9"}

is_ascii_alphabetic(c) ==
    c \in {"a", "b", "c", "d", "e", "f", "g", "h", "i", "j", "k", "l", "m",
           "n", "o", "p", "q", "r", "s", "t", "u", "v", "w", "x", "y", "z",
           "A", "B", "C", "D", "E", "F", "G", "H", "I", "J", "K", "L", "M",
           "N", "O", "P", "Q", "R", "S", "T", "U", "V", "W", "X", "Y", "Z"}

is_ascii_alphanumeric(c) == is_ascii_alphabetic(c) \/ is_ascii_digit(c)

is_whitespace(c) == c \in {" ", "\t", "\n", "\r", "\f"}

(***************************************************************************)
(* Token and Option<Token>.                                                *)
(***************************************************************************)
Token(kind, value) == [some |-> TRUE, kind |-> kind, value |-> value]

None == [some |-> FALSE, kind |-> "None", value |-> <<>>]

\* What a lexer function hands back: the token, the cursor it leaves, and
\* whether it panicked (an unwrap of None or a missing table key).
LexRet(token, p) == [token |-> token, pos |-> p, panic |-> FALSE]

LexPanic(p) == [token |-> None, pos |-> p, panic |-> TRUE]

(***************************************************************************)
(* Lexer                                                                   *)
(***************************************************************************)
Lexer_current(s, p) == IF p < Len(s) THEN s[p + 1] ELSE NoChar

Lexer_advance(s, p) == [pos |-> p + 1, c |-> Lexer_current(s, p + 1)]

is_number_token(c) == is_ascii_digit(c) \/ c = "."

RECURSIVE number_loop(_, _, _, _)
\* Faulty variant: the kind follows the character just read alone.
number_loop_lastkind(s, p, kind, number_str) ==
    LET cur == Lexer_current(s, p) IN
    IF cur = NoChar THEN LexPanic(p)
    ELSE LET kind2 == IF cur = "." THEN "Float" ELSE "Integer"
             str2  == Append(number_str, cur)
             a     == Lexer_advance(s, p)
         IN  IF a.c = NoChar THEN LexRet(Token(kind2, str2), a.pos)
             ELSE IF ~is_number_token(a.c) THEN LexRet(Token(kind2, str2), a.pos)
             ELSE number_loop(s, a.pos, kind2, str2)

number_loop(s, p, kind, number_str) ==
    LET cur == Lexer_current(s, p) IN
    IF cur = NoChar THEN LexPanic(p)
    ELSE LET kind2 == IF cur = "." THEN "Float" ELSE kind
             str2  == Append(number_str, cur)
             a     == Lexer_advance(s, p)
         IN  IF a.c = NoChar THEN LexRet(Token(kind2, str2), a.pos)
             ELSE IF ~is_number_token(a.c) THEN LexRet(Token(kind2, str2), a.pos)
             ELSE number_loop(s, a.pos, kind2, str2)

tokenize_number(s, p) == number_loop(s, p, "Integer", <<>>)

RECURSIVE unknown_loop(_, _, _)
\* Faulty variant: the cursor steps over whatever ended the token, the end
\* of the input included.
unknown_loop_stepover(s, p, value) ==
    LET a == Lexer_advance(s, p) IN
    IF a.c = NoChar THEN LexRet(Token("Unknown", value), a.pos + 1)
    ELSE IF is_whitespace(a.c) THEN LexRet(Token("Unknown", value), a.pos + 1)
    ELSE unknown_loop(s, a.pos, Append(value, a.c))

unknown_loop(s, p, value) ==
    LET a == Lexer_advance(s, p) IN
    IF a.c = NoChar THEN LexRet(Token("Unknown", value), a.pos)
    ELSE IF is_whitespace(a.c) THEN LexRet(Token("Unknown", value), a.pos)
    ELSE unknown_loop(s, a.pos, Append(value, a.c))

tokenize_unknown(s, p) ==
    IF Lexer_current(s, p) = NoChar THEN LexPanic(p)
    ELSE unknown_loop(s, p, <<Lexer_current(s, p)>>)

\* Faulty variant: the "else" arm is missing.
keyword_kind_noelse(value) ==
    IF value = <<"f", "n">> THEN "Fn"
    ELSE IF value = <<"m", "u", "t">> THEN "Mut"
    ELSE IF value = <<"i", "f">> THEN "If"
    ELSE "Identifier"

keyword_kind(value) ==
    IF value = <<"f", "n">> THEN "Fn"
    ELSE IF value = <<"m", "u", "t">> THEN "Mut"
    ELSE IF value = <<"i", "f">> THEN "If"
    ELSE IF value = <<"e", "l", "s", "e">> THEN "Else"
    ELSE "Identifier"

RECURSIVE identifier_loop(_, _, _)
\* Faulty variant: an underscore is taken as part of the identifier.
identifier_loop_underscore(s, p, value) ==
    LET a == Lexer_advance(s, p) IN
    IF a.c = NoChar THEN LexRet(Token(keyword_kind(value), value), a.pos)
    ELSE IF ~is_ascii_alphanumeric(a.c) /\ a.c # "_"
         THEN LexRet(Token(keyword_kind(value), value), a.pos)
    ELSE identifier_loop(s, a.pos, Append(value, a.c))

identifier_loop(s, p, value) ==
    LET a == Lexer_advance(s, p) IN
    IF a.c = NoChar THEN LexRet(Token(keyword_kind(value), value), a.pos)
    ELSE IF ~is_ascii_alphanumeric(a.c) \/ a.c = "_"
         THEN LexRet(Token(keyword_kind(value), value), a.pos)
    ELSE identifier_loop(s, a.pos, Append(value, a.c))

tokenize_identifier(s, p) ==
    IF Lexer_current(s, p) = NoChar THEN LexPanic(p)
    ELSE identifier_loop(s, p, <<Lexer_current(s, p)>>)

RECURSIVE string_loop(_, _, _)
\* Faulty variant: the closing quote is not stepped over.
string_loop_noadvance(s, p, value) ==
    LET a == Lexer_advance(s, p) IN
    IF a.c = NoChar THEN LexRet(Token("Unknown", value), a.pos)
    ELSE IF a.c = "\"" THEN LexRet(Token("String", value), a.pos)
    ELSE string_loop(s, a.pos, Append(value, a.c))

string_loop(s, p, value) ==
    LET a == Lexer_advance(s, p) IN
    IF a.c = NoChar THEN LexRet(Token("Unknown", value), a.pos)
    ELSE IF a.c = "\"" THEN LexRet(Token("String", value), Lexer_advance(s, a.pos).pos)
    ELSE string_loop(s, a.pos, Append(value, a.c))

tokenize_string(s, p) == string_loop(s, p, <<>>)

token_pairs ==
    << <<(<<"{">>), "LeftCurly">>,
       <<(<<"}">>), "RightCurly">>,
       <<(<<"(">>), "LeftParen">>,
       <<(<<")">>), "RightParen">>,
       <<(<<"[">>), "LeftBracket">>,
       <<(<<"]">>), "RightBracket">>,
       <<(<<".">>), "Dot">>,
       <<(<<",">>), "Comma">>,
       <<(<<":">>), "Colon">>,
       <<(<<";">>), "Semi">>,
       <<(<<":", "=">>), "DeclAssign">>,
       <<(<<"=">>), "Assign">>,
       <<(<<"+">>), "Plus">>,
       <<(<<"-">>), "Minus">>,
       <<(<<"*">>), "Times">>,
       <<(<<"/">>), "DividedBy">>,
       <<(<<"=", "=">>), "Equals">>,
       <<(<<"!">>), "Not">>,
       <<(<<"!", "=">>), "NotEquals">>,
       <<(<<"|", "|">>), "Or">>,
       <<(<<"&", "&">>), "And">>,
       <<(<<">">>), "GreaterThan">>,
       <<(<<">", "=">>), "GreaterOrEquals">>,
       <<(<<"<">>), "LowerThan">>,
       <<(<<"<", "=">>), "LowerOrEquals">>,
       <<(<<"&">>), "BitAnd">>,
       <<(<<"|">>), "BitOr">>,
       <<(<<"^">>), "BitXor">>,
       <<(<<"~">>), "BitNot">> >>

\* HashMap<String, Token>: a later insert of the same key would replace the
\* earlier one.
symbol_table ==
    [k \in {token_pairs[i][1] : i \in DOMAIN token_pairs} |->
        LET i == CHOOSE i \in DOMAIN token_pairs :
                    /\ token_pairs[i][1] = k
                    /\ \A j \in DOMAIN token_pairs : j > i => token_pairs[j][1] # k
        IN  Token(token_pairs[i][2], k)]

\* The characters of all keys joined.
is_symbol_token(c) ==
    \E k \in DOMAIN symbol_table : \E i \in DOMAIN k : k[i] = c

\* table[&key]: indexing a HashMap with a missing key panics.
table_index(key, p) ==
    IF key \in DOMAIN symbol_table THEN LexRet(symbol_table[key], p) ELSE LexPanic(p)

\* Faulty variant: the one-character arms of : = > < ! fall through to the trailing
\* advance instead of returning early.
tokenize_symbol_fallthrough(s, p) ==
    LET c == Lexer_current(s, p) IN
    IF c = NoChar THEN LexPanic(p)
    ELSE IF c \in {":", "=", ">", "<", "!"} THEN
        LET regular == table_index(<<c>>, p)
            a       == Lexer_advance(s, p)
        IN  IF regular.panic THEN regular
            ELSE IF a.c = NoChar THEN LexRet(regular.token, Lexer_advance(s, a.pos).pos)
            ELSE IF a.c # "=" THEN LexRet(regular.token, Lexer_advance(s, a.pos).pos)
            ELSE table_index(<<c, "=">>, Lexer_advance(s, a.pos).pos)
    ELSE IF c \in {"&", "|"} THEN
        LET regular == table_index(<<c>>, p)
            a       == Lexer_advance(s, p)
        IN  IF regular.panic THEN regular
            ELSE IF a.c = NoChar THEN LexRet(regular.token, a.pos)
            ELSE IF a.c # c THEN LexRet(regular.token, a.pos)
            ELSE table_index(<<c, c>>, Lexer_advance(s, a.pos).pos)
    ELSE IF <<c>> \in DOMAIN symbol_table
         THEN LexRet(symbol_table[<<c>>], Lexer_advance(s, p).pos)
         ELSE LexRet(Token("Unknown", <<c>>), Lexer_advance(s, p).pos)

tokenize_symbol(s, p) ==
    LET c == Lexer_current(s, p) IN
    IF c = NoChar THEN LexPanic(p)
    ELSE IF c \in {":", "=", ">", "<", "!"} THEN
        LET regular == table_index(<<c>>, p)
            a       == Lexer_advance(s, p)
        IN  IF regular.panic THEN regular
            ELSE IF a.c = NoChar THEN LexRet(regular.token, a.pos)
            ELSE IF a.c # "=" THEN LexRet(regular.token, a.pos)
            ELSE table_index(<<c, "=">>, Lexer_advance(s, a.pos).pos)
    ELSE IF c \in {"&", "|"} THEN
        LET regular == table_index(<<c>>, p)
            a       == Lexer_advance(s, p)
        IN  IF regular.panic THEN regular
            ELSE IF a.c = NoChar THEN LexRet(regular.token, a.pos)
            ELSE IF a.c # c THEN LexRet(regular.token, a.pos)
            ELSE table_index(<<c, c>>, Lexer_advance(s, a.pos).pos)
    ELSE IF <<c>> \in DOMAIN symbol_table
         THEN LexRet(symbol_table[<<c>>], Lexer_advance(s, p).pos)
         ELSE LexRet(Token("Unknown", <<c>>), Lexer_advance(s, p).pos)

RECURSIVE tokenize(_, _)
\* Faulty variant: at the end of input the cursor is advanced before absence is
\* returned.
tokenize_advancing(s, p) ==
    LET c == Lexer_current(s, p) IN
    IF c = NoChar THEN LexRet(None, Lexer_advance(s, p).pos)
    ELSE IF is_whitespace(c) THEN tokenize(s, Lexer_advance(s, p).pos)
    ELSE IF is_number_token(c) THEN tokenize_number(s, p)
    ELSE IF is_ascii_alphabetic(c) \/ c = "_" THEN tokenize_identifier(s, p)
    ELSE IF c = "\"" THEN tokenize_string(s, p)
    ELSE IF is_symbol_token(c) THEN tokenize_symbol(s, p)
    ELSE tokenize_unknown(s, p)

\* Faulty variant: the whitespace arm lacks its `continue`, so after one step the
\* stale whitespace character is classified.
tokenize_nocontinue(s, p) ==
    LET c == Lexer_current(s, p) IN
    IF c = NoChar THEN LexRet(None, p)
    ELSE IF is_whitespace(c) THEN tokenize_unknown(s, Lexer_advance(s, p).pos)
    ELSE IF is_number_token(c) THEN tokenize_number(s, p)
    ELSE IF is_ascii_alphabetic(c) \/ c = "_" THEN tokenize_identifier(s, p)
    ELSE IF c = "\"" THEN tokenize_string(s, p)
    ELSE IF is_symbol_token(c) THEN tokenize_symbol(s, p)
    ELSE tokenize_unknown(s, p)

tokenize(s, p) ==
    LET c == Lexer_current(s, p) IN
    IF c = NoChar THEN LexRet(None, p)
    ELSE IF is_whitespace(c) THEN tokenize(s, Lexer_advance(s, p).pos)
    ELSE IF is_number_token(c) THEN tokenize_number(s, p)
    ELSE IF is_ascii_alphabetic(c) \/ c = "_" THEN tokenize_identifier(s, p)
    ELSE IF c = "\"" THEN tokenize_string(s, p)
    ELSE IF is_symbol_token(c) THEN tokenize_symbol(s, p)
    ELSE tokenize_unknown(s, p)

(***************************************************************************)
(* AST and errors (parser.rs).                                             *)
(***************************************************************************)
Declaration(identifier, value) ==
    [type |-> "Declaration", identifier |-> identifier, value |-> value]

Number(n) == [type |-> "Number", number |-> n]

String(str) == [type |-> "String", string |-> str]

Function(params, return_type, body) ==
    [type |-> "Function", params |-> params, return_type |-> return_type, body |-> body]

NoMoreTokens == [kind |-> "NoMoreTokens", token |-> None]

MissingTokenAfter(token) == [kind |-> "MissingTokenAfter", token |-> token]

UnexpectedToken(token) == [kind |-> "UnexpectedToken", token |-> token]

InvalidNumber(token) == [kind |-> "InvalidNumber", token |-> token]

Ok(v) == [ok |-> TRUE, value |-> v]

Err(e) == [ok |-> FALSE, error |-> e]

\* What a parser function hands back: its Result, the lookahead token and the
\* lexer cursor it leaves, and whether it panicked.
ParseRet(res, cur, p) == [res |-> res, current |-> cur, pos |-> p, panic |-> FALSE]

ParsePanic(cur, p) == [res |-> Err(NoMoreTokens), current |-> cur, pos |-> p, panic |-> TRUE]

(***************************************************************************)
(* str::parse::<f64> on a lexeme of digits and dots: the lexeme is valid   *)
(* when it holds at most one '.' and at least one digit.  The value is the *)
(* decimal mant / 10^exp in lowest terms of ten: lexemes of the lengths    *)
(* modelled here convert to equal floats exactly when these agree.         *)
(***************************************************************************)
DigitValue(c) ==
    CHOOSE d \in 0..9 : <<"0", "1", "2", "3", "4", "5", "6", "7", "8", "9">>[d + 1] = c

RECURSIVE f64_scan(_, _, _, _, _, _)
f64_scan(value, i, mant, exp, dots, digits) ==
    IF i > Len(value) THEN [mant |-> mant, exp |-> exp, dots |-> dots, digits |-> digits]
    ELSE IF value[i] = "." THEN f64_scan(value, i + 1, mant, exp, dots + 1, digits)
    ELSE IF is_ascii_digit(value[i])
         THEN f64_scan(value, i + 1, mant * 10 + DigitValue(value[i]),
                       IF dots > 0 THEN exp + 1 ELSE exp, dots, digits + 1)
    ELSE [mant |-> mant, exp |-> exp, dots |-> 2, digits |-> digits]

RECURSIVE f64_normal(_, _)
f64_normal(mant, exp) ==
    IF mant = 0 THEN <<0, 0>>
    ELSE IF exp > 0 /\ mant % 10 = 0 THEN f64_normal(mant \div 10, exp - 1)
    ELSE <<mant, exp>>

parse_f64(value) ==
    LET r == f64_scan(value, 1, 0, 0, 0, 0) IN
    IF r.dots <= 1 /\ r.digits >= 1 THEN Ok(f64_normal(r.mant, r.exp))
    ELSE Err(<<>>)

(***************************************************************************)
(* Parser                                                                  *)
(***************************************************************************)
\* self.current = self.lexer.tokenize()
Parser_advance(s, p) ==
    LET r == tokenize(s, p) IN
    [current |-> r.token, pos |-> r.pos, panic |-> r.panic]

RECURSIVE parse(_, _, _)
RECURSIVE left_curly_loop(_, _, _)
RECURSIVE right_curly_loop(_, _, _, _)

\* The end of parse_function: b is the advance past the right curly.
function_value(body, b) ==
    IF b.panic THEN ParsePanic(b.current, b.pos)
    ELSE ParseRet(Ok(Function(<<>>, "Void", body)), b.current, b.pos)

\* Faulty variant: a body expression is put in front of the body, not behind it.
body_push_front(s, previous, body, r) ==
    IF r.panic \/ ~r.res.ok THEN r
    ELSE right_curly_loop(s, r.pos, previous, <<r.res.value>> \o body)

\* body.push(self.parse()?), then the next turn of the loop: r is what
\* parse() returned.
body_push(s, previous, body, r) ==
    IF r.panic \/ ~r.res.ok THEN r
    ELSE right_curly_loop(s, r.pos, previous, Append(body, r.res.value))

\* One turn of "loop until right curly": a is the advance that opens it.
right_curly_turn(s, previous, body, a) ==
    IF a.panic THEN ParsePanic(a.current, a.pos)
    ELSE IF ~a.current.some
         THEN ParseRet(Err(MissingTokenAfter(previous)), a.current, a.pos)
    ELSE IF a.current.kind = "RightCurly"
         THEN function_value(body, Parser_advance(s, a.pos))
    ELSE body_push(s, a.current, body, parse(s, a.current, a.pos))

\* "loop until right curly"
right_curly_loop(s, p, previous, body) ==
    right_curly_turn(s, previous, body, Parser_advance(s, p))

\* One turn of "go to left curly": a is the advance that opens it.
left_curly_turn(s, previous, a) ==
    IF a.panic THEN ParsePanic(a.current, a.pos)
    ELSE IF ~a.current.some
         THEN ParseRet(Err(MissingTokenAfter(previous)), a.current, a.pos)
    ELSE IF a.current.kind = "LeftCurly" THEN right_curly_loop(s, a.pos, previous, <<>>)
    ELSE left_curly_loop(s, a.pos, a.current)

\* "go to left curly"
left_curly_loop(s, p, previous) == left_curly_turn(s, previous, Parser_advance(s, p))

parse_function(s, cur, p) ==
    IF ~cur.some THEN ParsePanic(cur, p)
    ELSE left_curly_loop(s, p, cur)

\* self.advance(); Ok(value): a is the advance past the literal.
literal_value(value, a) ==
    IF a.panic THEN ParsePanic(a.current, a.pos)
    ELSE ParseRet(Ok(value), a.current, a.pos)

\* Faulty variant: the number token is passed before its text is read.
number_value_advanced(s, cur, p, number) ==
    IF ~number.ok
    THEN LET a == Parser_advance(s, p)
         IN  ParseRet(Err(InvalidNumber(cur)), a.current, a.pos)
    ELSE literal_value(Number(number.value), Parser_advance(s, p))

\* The Integer | Float arm: number is what parse::<f64>() returned.
number_value(s, cur, p, number) ==
    IF ~number.ok THEN ParseRet(Err(InvalidNumber(cur)), cur, p)
    ELSE literal_value(Number(number.value), Parser_advance(s, p))

\* Faulty variant: a token that starts no value is reported as a bad number.
parse_value_invalid(s, cur, p) ==
    IF ~cur.some THEN ParsePanic(cur, p)
    ELSE IF cur.kind \in {"Integer", "Float"}
         THEN number_value(s, cur, p, parse_f64(cur.value))
    ELSE IF cur.kind = "String" THEN literal_value(String(cur.value), Parser_advance(s, p))
    ELSE IF cur.kind = "Fn" THEN parse_function(s, cur, p)
    ELSE ParseRet(Err(InvalidNumber(cur)), cur, p)

parse_value(s, cur, p) ==
    IF ~cur.some THEN ParsePanic(cur, p)
    ELSE IF cur.kind \in {"Integer", "Float"}
         THEN number_value(s, cur, p, parse_f64(cur.value))
    ELSE IF cur.kind = "String" THEN literal_value(String(cur.value), Parser_advance(s, p))
    ELSE IF cur.kind = "Fn" THEN parse_function(s, cur, p)
    ELSE ParseRet(Err(UnexpectedToken(cur)), cur, p)

\* Faulty variant: no Semi is asked for after any value.
declaration_nosemi(ident, next, v) ==
    IF v.panic \/ ~v.res.ok THEN v
    ELSE ParseRet(Ok(Declaration(ident.value, v.res.value)), v.current, v.pos)

\* The end of the DeclAssign arm: v is what parse_value() returned.
declaration(ident, next, v) ==
    IF v.panic \/ ~v.res.ok THEN v
    ELSE IF v.res.value.type = "Function"
         THEN ParseRet(Ok(Declaration(ident.value, v.res.value)), v.current, v.pos)
    ELSE IF ~v.current.some
         THEN ParseRet(Err(MissingTokenAfter(next)), v.current, v.pos)
    ELSE IF v.current.kind # "Semi"
         THEN ParseRet(Err(UnexpectedToken(v.current)), v.current, v.pos)
    ELSE ParseRet(Ok(Declaration(ident.value, v.res.value)), v.current, v.pos)

\* Faulty variant: the value is parsed without a look at whether a token
\* follows the `:=`.
decl_assign_nocheck(s, ident, next, b) ==
    IF b.panic THEN ParsePanic(b.current, b.pos)
    ELSE declaration(ident, next, parse_value(s, b.current, b.pos))

\* The DeclAssign arm: b is the advance past `:=`.
decl_assign(s, ident, next, b) ==
    IF b.panic THEN ParsePanic(b.current, b.pos)
    ELSE IF ~b.current.some
         THEN ParseRet(Err(MissingTokenAfter(next)), b.current, b.pos)
    ELSE declaration(ident, next, parse_value(s, b.current, b.pos))

\* Faulty variant: the end of the input after the identifier is reported
\* as NoMoreTokens.
identifier_next_nomore(s, ident, a) ==
    IF a.panic THEN ParsePanic(a.current, a.pos)
    ELSE IF ~a.current.some
         THEN ParseRet(Err(NoMoreTokens), a.current, a.pos)
    ELSE IF a.current.kind = "DeclAssign"
         THEN decl_assign(s, ident, a.current, Parser_advance(s, a.pos))
    ELSE ParseRet(Err(UnexpectedToken(a.current)), a.current, a.pos)

\* parse_identifier after its first advance a.
identifier_next(s, ident, a) ==
    IF a.panic THEN ParsePanic(a.current, a.pos)
    ELSE IF ~a.current.some
         THEN ParseRet(Err(MissingTokenAfter(ident)), a.current, a.pos)
    ELSE IF a.current.kind = "DeclAssign"
         THEN decl_assign(s, ident, a.current, Parser_advance(s, a.pos))
    ELSE ParseRet(Err(UnexpectedToken(a.current)), a.current, a.pos)

parse_identifier(s, cur, p) ==
    IF ~cur.some THEN ParsePanic(cur, p)
    ELSE identifier_next(s, cur, Parser_advance(s, p))

\* Faulty variant: a token that starts no expression is stepped over.
parse_token_skip(s, a) ==
    IF a.panic THEN ParsePanic(a.current, a.pos)
    ELSE IF ~a.current.some THEN ParseRet(Err(NoMoreTokens), a.current, a.pos)
    ELSE IF a.current.kind = "Identifier" THEN parse_identifier(s, a.current, a.pos)
    ELSE LET b == Parser_advance(s, a.pos)
         IN  ParseRet(Err(UnexpectedToken(a.current)), b.current, b.pos)

\* parse after the lookahead was filled: a is the Parser then.
parse_token(s, a) ==
    IF a.panic THEN ParsePanic(a.current, a.pos)
    ELSE IF ~a.current.some THEN ParseRet(Err(NoMoreTokens), a.current, a.pos)
    ELSE IF a.current.kind = "Identifier" THEN parse_identifier(s, a.current, a.pos)
    ELSE ParseRet(Err(UnexpectedToken(a.current)), a.current, a.pos)

parse(s, cur, p) ==
    parse_token(s, IF ~cur.some THEN Parser_advance(s, p)
                   ELSE [current |-> cur, pos |-> p, panic |-> FALSE])

(***************************************************************************)
(* Inputs.  A source text is drawn from bounded families: all short texts  *)
(* over a mixed alphabet, short texts of operator characters, runs of      *)
(* letters, the line of all operator spellings, and renderings of lexeme   *)
(* sequences with or without a blank between the lexemes.                  *)
(***************************************************************************)
MaxToks == 4
MaxDecls == 3
MaxBody == 2
MaxNum == 5
MaxTail == 1
MaxRest == 3
MaxNest == 2

StringsUpTo(A, n) == UNION {[1..k -> A] : k \in 0..n}

RECURSIVE Concat(_)
Concat(ss) == IF ss = <<>> THEN <<>> ELSE Head(ss) \o Concat(Tail(ss))

RECURSIVE Render(_, _)
Render(lexemes, sep) ==
    IF lexemes = <<>> THEN <<>>
    ELSE IF Len(lexemes) = 1 THEN Head(lexemes)
    ELSE Head(lexemes) \o sep \o Render(Tail(lexemes), sep)

Seps == {<<>>, <<" ">>}

MixedAlphabet == {" ", "\n", "1", ".", "a", "_", "\"", "#"}

SymAlphabet == {":", "=", ">", "<", "!", "&", "|", "+", " ", "a", "1"}

KeywordLettersA == {"e", "l", "s", "f", "n", "i"}

KeywordLettersB == {"m", "u", "t", "F"}

SymbolLine == Render([i \in DOMAIN token_pairs |-> token_pairs[i][1]], <<" ">>)

LexInputs ==
    StringsUpTo(MixedAlphabet, MaxLen)
        \cup StringsUpTo(SymAlphabet, MaxSymLen)
        \cup StringsUpTo(KeywordLettersA, MaxLetters)
        \cup StringsUpTo(KeywordLettersB, MaxLetters)
        \cup {SymbolLine}

\* Lexemes of well-formed programs.
Ids == {<<"x">>, <<"f">>}

NumberLits == {<<"5">>, <<"1", ".", "0">>}

StringLits == {<<"\"", "a", "\"">>}

DeclLexemes(id, lit) == <<id, <<":", "=">>, lit, <<";">>>>

FnLexemes(id, between, body) ==
    <<id, <<":", "=">>, <<"f", "n">>>> \o between \o <<(<<"{">>)>> \o body \o <<(<<"}">>)>>

\* Descriptions of declarations: what DeclLexemes / FnLexemes spell out.
LitDecls == [id : Ids, lit : NumberLits \cup StringLits]

DeclsUpTo(n) == UNION {[1..k -> LitDecls] : k \in 0..n}

Parens == <<(<<"(">>), (<<")">>)>>

Betweens == {<<>>, Parens}

FnDecls(n) == [id : Ids, between : Betweens, body : DeclsUpTo(n)]

BodyLexemes(ds) == Concat([i \in DOMAIN ds |-> DeclLexemes(ds[i].id, ds[i].lit)])

\* A description of a top-level declaration is a literal declaration or a
\* function declaration.
IsFn(d) == "body" \in DOMAIN d

TopLexemes(d) ==
    IF IsFn(d) THEN FnLexemes(d.id, d.between, BodyLexemes(d.body))
    ELSE DeclLexemes(d.id, d.lit)

ProgramLexemes(ds) == Concat([i \in DOMAIN ds |-> TopLexemes(ds[i])])

SeqDecls ==
    [id : {<<"x">>}, lit : {<<"5">>} \cup StringLits]
        \cup [id : {<<"f">>}, between : {Parens},
               body : {<<>>, <<[id |-> <<"x">>, lit |-> <<"5">>]>>}]

Programs == UNION {[1..k -> SeqDecls] : k \in 1..MaxDecls}

Lexemes ==
    {<<"x">>, <<":", "=">>, <<"5">>, <<";">>, <<"f", "n">>, <<"{">>, <<"}">>}

\* Lexemes the lexer takes for a number: runs of digits and dots.
NumTexts == StringsUpTo({"1", "."}, MaxNum) \ {<<>>}

\* Lexemes that start no value.
OddLexemes ==
    {<<";">>, <<"x">>, <<":", "=">>, <<"{">>, <<"}">>, <<"(">>, <<"=">>,
     <<"#">>, <<"i", "f">>, <<"\"", "a">>}

TailLexemes == {<<";">>, <<"x">>, <<"5">>, <<"}">>}

\* `x := V` followed by at most MaxTail further lexemes.
ValueInputs ==
    {Render(<<(<<"x">>), (<<":", "=">>), v>> \o tail, <<" ">>) :
        v \in NumTexts \cup StringLits \cup OddLexemes,
        tail \in StringsUpTo(TailLexemes, MaxTail)}

\* What may stand between `fn` and the first `{`.
BetweenSeqs == {<<>>, Parens, <<(<<"x">>)>>, <<(<<"5">>), (<<";">>)>>}

RestLexemes == {<<"x">>, <<":", "=">>, <<"5">>, <<";">>, <<"}">>}

\* The lexemes of `x := fn <between> { <rest>`.
FnText(between, rest) ==
    Render(<<(<<"x">>), (<<":", "=">>), (<<"f", "n">>)>> \o between \o <<(<<"{">>)>> \o rest,
           <<" ">>)

FnInputs ==
    {FnText(between, rest) :
        between \in BetweenSeqs, rest \in StringsUpTo(RestLexemes, MaxRest)}

\* Function declarations whose body holds declarations of every sort,
\* function declarations among them.
NestedBodies == UNION {[1..k -> SeqDecls] : k \in 1..MaxNest}

NestedText(body, sep) == Render(FnLexemes(<<"f">>, Parens, ProgramLexemes(body)), sep)

NestedInputs == {NestedText(body, sep) : body \in NestedBodies, sep \in Seps}

ParseInputs ==
    {Render(ls, <<" ">>) : ls \in StringsUpTo(Lexemes, MaxToks)}
        \cup {Render(ProgramLexemes(ds), sep) : ds \in Programs, sep \in Seps}
        \cup {Render(TopLexemes(d), sep) : d \in FnDecls(MaxBody), sep \in Seps}
        \cup ValueInputs \cup FnInputs \cup NestedInputs

(***************************************************************************)
(* The program as a state machine.  content and pos are the Lexer, current *)
(* is the Parser's lookahead, rets holds what the calls made so far have   *)
(* returned, pc is where the caller stands and stdout what main printed.   *)
(***************************************************************************)
Absent(r) == IF "some" \in DOMAIN r THEN ~r.some ELSE ~r.ok

Idle == Cardinality({i \in DOMAIN rets : Absent(rets[i])})

Start(inputs, at) ==
    /\ content \in inputs
    /\ pos = 0
    /\ current = None
    /\ rets = <<>>
    /\ pc = at
    /\ stdout = <<>>

\* The Lexer after a tokenize() that handed back r.
Tokenized(r) ==
    IF r.panic
    THEN pc' = "panic" /\ UNCHANGED <<content, pos, current, rets, stdout>>
    ELSE /\ pos' = r.pos
         /\ rets' = Append(rets, r.token)
         /\ UNCHANGED <<content, current, pc, stdout>>

\* A caller of the Lexer calls tokenize() once more.
TokenizeCall ==
    /\ pc = "lexer"
    /\ Idle < MaxAbsent
    /\ Tokenized(tokenize(content, pos))

\* The Parser after a parse() that handed back r.
Parsed(r) ==
    IF r.panic
    THEN pc' = "panic" /\ UNCHANGED <<content, pos, current, rets, stdout>>
    ELSE /\ pos' = r.pos
         /\ current' = r.current
         /\ rets' = Append(rets, r.res)
         /\ UNCHANGED <<content, pc, stdout>>

\* A caller of the Parser calls parse() once more.
ParseCall ==
    /\ pc = "parser"
    /\ Idle < MaxAbsent
    /\ Parsed(parse(content, current, pos))

\* main: print the source, build the parser.
MainStart ==
    /\ pc = "main"
    /\ stdout' = <<[line |-> "source:"], [line |-> content], [line |-> ""]>>
    /\ pos' = 0
    /\ current' = None
    /\ pc' = "loop"
    /\ UNCHANGED <<content, rets>>

\* main: the match on the result r of parser.parse().
MainMatch(r) ==
    IF r.panic
    THEN pc' = "panic" /\ UNCHANGED <<content, pos, current, rets, stdout>>
    ELSE /\ pos' = r.pos
         /\ current' = r.current
         /\ IF r.res.ok
            THEN /\ stdout' = Append(stdout, [line |-> "EXPR: ", expr |-> r.res.value])
                 /\ pc' = "loop"
            ELSE IF r.res.error = NoMoreTokens
            THEN /\ pc' = "exit"
                 /\ UNCHANGED stdout
            ELSE /\ stdout' = Append(stdout, [line |-> "ERROR: ", e |-> r.res.error])
                 /\ pc' = "exit"
         /\ UNCHANGED <<content, rets>>

\* main: one turn of the loop.
MainLoop ==
    /\ pc = "loop"
    /\ MainMatch(parse(content, current, pos))

LexInit == Start(LexInputs, "lexer")

LexNext == TokenizeCall

LexSpec == LexInit /\ [][LexNext]_vars

ParseInit == Start(ParseInputs, "parser")

ParseNext == ParseCall

ParseSpec == ParseInit /\ [][ParseNext]_vars

Init == Start(ParseInputs, "main")

Next == MainStart \/ MainLoop

Spec == Init /\ [][Next]_vars

\* Every use of the program at once: a caller of the Lexer, a caller of
\* the Parser, and main.
EzInit == LexInit \/ ParseInit \/ Init

EzNext == TokenizeCall \/ ParseCall \/ MainStart \/ MainLoop

EzSpec == EzInit /\ [][EzNext]_vars

(***************************************************************************)
(* Vocabulary of the properties.                                           *)
(***************************************************************************)
Last(seq) == seq[Len(seq)]

\* The step is a call that returned (it did not panic).
Called == Len(rets') = Len(rets) + 1

Min(S) == CHOOSE x \in S : \A y \in S : x <= y

\* The first position at or after p that holds no whitespace (Len(s) if none).
FirstNonWs(s, p) == Min({i \in p..Len(s) : i = Len(s) \/ ~is_whitespace(s[i + 1])})

DigitOrDot == {"0", "1", "2", "3", "4", "5", "6", "7", "8", "9", "."}

\* The first position at or after p that holds no digit and no dot.
RunEnd(s, p) == Min({i \in p..Len(s) : i = Len(s) \/ s[i + 1] \notin DigitOrDot})

\* The value a literal lexeme of the input families denotes.
LitValue(lit) ==
    CASE lit = <<"5">> -> Number(<<5, 0>>)
      [] lit = <<"1", ".", "0">> -> Number(<<1, 0>>)
      [] lit = <<"\"", "a", "\"">> -> String(<<"a">>)

\* The expression a described declaration denotes.
ExpectedExpr(d) ==
    IF IsFn(d)
    THEN Declaration(d.id,
             Function(<<>>, "Void",
                 [i \in DOMAIN d.body |-> Declaration(d.body[i].id, LitValue(d.body[i].lit))]))
    ELSE Declaration(d.id, LitValue(d.lit))

SingleDecls == [id : Ids, lit : {<<"5">>}]

SingleDeclInputs == {Render(TopLexemes(d), sep) : d \in SingleDecls, sep \in Seps}

\* C1: for the input `id := <integer literal> ;` the first parse() returns
\* Declaration { id, Number(n) } and the second parse() returns NoMoreTokens.
C1_SecondParseNoMoreTokens ==
    (content \in SingleDeclInputs /\ Len(rets) >= 2) =>
        \A d \in SingleDecls :
            (\E sep \in Seps : content = Render(TopLexemes(d), sep)) =>
                /\ rets[1] = Ok(ExpectedExpr(d))
                /\ rets[2] = Err(NoMoreTokens)

LongPrograms == {ds \in Programs : Len(ds) >= 2}

LongProgramInputs == {Render(ProgramLexemes(ds), sep) : ds \in LongPrograms, sep \in Seps}

Header == <<[line |-> "source:"], [line |-> content], [line |-> ""]>>

\* C2: for an input of two or more well-formed top-level declarations the
\* parse() calls of the driver return the declarations one per call in source
\* order and then NoMoreTokens: the driver prints every declaration, prints no
\* error, and ends.
C2_ProgramParsesInOrder ==
    (content \in LongProgramInputs /\ pc = "exit") =>
        \A ds \in LongPrograms :
            (\E sep \in Seps : content = Render(ProgramLexemes(ds), sep)) =>
                stdout = Header \o [i \in DOMAIN ds |->
                                       [line |-> "EXPR: ", expr |-> ExpectedExpr(ds[i])]]

PlainFnDecls == {d \in FnDecls(MaxBody) : d.between = Parens}

\* Each such input with the declaration it spells out.
PlainFnTexts == {<<Render(TopLexemes(d), sep), d>> : d \in PlainFnDecls, sep \in Seps}

PlainFnInputs == {x[1] : x \in PlainFnTexts}

\* C3: for the input `f := fn() { d1 ... dn }` with n >= 0 literal
\* declarations in the body, parse() returns Declaration { f, Function {
\* params: [], return_type: Void, body } } with body the n declarations in
\* source order.
C3_FunctionBodyInOrder ==
    (content \in PlainFnInputs /\ Len(rets) >= 1) =>
        \A x \in PlainFnTexts :
            x[1] = content => rets[1] = Ok(ExpectedExpr(x[2]))

C3_Witness ==
    /\ content \in PlainFnInputs
    /\ Len(rets) >= 1
    /\ rets[1].ok
    /\ Len(rets[1].value.value.body) = 2
    /\ rets[1].value.value.body[1] # rets[1].value.value.body[2]

\* C4: tokenizing the blank-separated spellings of all symbol-table entries
\* yields one token per entry, in order, each of the kind the table gives the
\* spelling, and nothing after them.
C4_SymbolLineRoundTrip ==
    (content = SymbolLine /\ Len(rets) > Len(token_pairs)) =>
        /\ \A i \in DOMAIN token_pairs :
               rets[i] = Token(token_pairs[i][2], token_pairs[i][1])
        /\ rets[Len(token_pairs) + 1] = None

WideKind(c) ==
    CASE c = ":" -> "DeclAssign" [] c = "=" -> "Equals" [] c = ">" -> "GreaterOrEquals"
      [] c = "<" -> "LowerOrEquals" [] c = "!" -> "NotEquals"
      [] c = "&" -> "And" [] c = "|" -> "Or"

NarrowKind(c) ==
    CASE c = ":" -> "Colon" [] c = "=" -> "Assign" [] c = ">" -> "GreaterThan"
      [] c = "<" -> "LowerThan" [] c = "!" -> "Not"
      [] c = "&" -> "BitAnd" [] c = "|" -> "BitOr"

Widener(c) == IF c \in {"&", "|"} THEN c ELSE "="

\* C5: with the cursor on one of : = > < ! followed by =, or on & or |
\* followed by the same character, tokenize consumes both characters and
\* returns the two-character kind; with any other next character, or none, it
\* returns the one-character kind and consumes exactly one character.
C5_PeekAndWiden ==
    [][\A c \in {":", "=", ">", "<", "!", "&", "|"} :
          (pc = "lexer" /\ Called /\ Lexer_current(content, pos) = c) =>
              IF Lexer_current(content, pos + 1) = Widener(c)
              THEN Last(rets').kind = WideKind(c) /\ pos' = pos + 2
              ELSE Last(rets').kind = NarrowKind(c) /\ pos' = pos + 1]_vars

C5_Witness ==
    /\ pc = "lexer"
    /\ Len(rets) = 2
    /\ content = <<"&", "=">>
    /\ rets[1].kind = "BitAnd"
    /\ rets[2].kind = "Assign"

\* C6: when the first non-whitespace character at or after the cursor is a
\* digit or a dot, tokenize returns the maximal run of digits and dots that
\* starts there, of kind Float if the run holds a dot and Integer if not, and
\* leaves the cursor on the first character after the run.
C6_NumberIsMaximalRun ==
    [][LET start == FirstNonWs(content, pos)
           end   == RunEnd(content, start)
           run   == SubSeq(content, start + 1, end)
       IN  (pc = "lexer" /\ Called /\ start < Len(content)
               /\ content[start + 1] \in DigitOrDot) =>
               /\ Last(rets').some
               /\ Last(rets').value = run
               /\ Last(rets').kind =
                      (IF \E i \in DOMAIN run : run[i] = "." THEN "Float" ELSE "Integer")
               /\ pos' = end]_vars

C6_Witness ==
    /\ pc = "lexer"
    /\ content = <<" ", "1", ".", "1">>
    /\ rets = <<Token("Float", <<"1", ".", "1">>)>>
    /\ pos = 4

ExpectedKeyword(text) ==
    CASE text = <<"f", "n">> -> "Fn"
      [] text = <<"m", "u", "t">> -> "Mut"
      [] text = <<"i", "f">> -> "If"
      [] text = <<"e", "l", "s", "e">> -> "Else"
      [] OTHER -> "Identifier"

\* C7: for an input that is a run of ASCII letters, tokenize returns kind Fn,
\* Mut, If or Else exactly when the run is fn, mut, if or else, and kind
\* Identifier for every other run; the token text is the run.
C7_KeywordsAndIdentifiers ==
    (/\ pc = "lexer"
     /\ content # <<>>
     /\ \A i \in DOMAIN content : is_ascii_alphabetic(content[i])
     /\ Len(rets) >= 1) =>
        rets[1] = Token(ExpectedKeyword(content), content)

C7_Witness ==
    /\ pc = "lexer"
    /\ content = <<"e", "l", "s", "e">>
    /\ Len(rets) >= 1
    /\ rets[1].kind = "Else"

\* The positions after p that hold a double quote.
QuotesAfter(s, p) == {i \in (p + 1)..(Len(s) - 1) : s[i + 1] = "\""}

\* The last call returned the text of a string literal that was never closed.
LastWasUnterminated ==
    /\ Len(rets) >= 1
    /\ Last(rets).kind = "Unknown"
    /\ pos = Len(content)
    /\ LET open == pos - Len(Last(rets).value) - 1 IN
       /\ open >= 0
       /\ content[open + 1] = "\""
       /\ QuotesAfter(content, open) = {}

\* C8: with the cursor on a double quote and no further double quote in the
\* input, tokenize returns one Unknown token holding every character after the
\* quote, and the next call returns absence; with a closing quote, the token
\* is a String holding the characters between the quotes and the cursor is
\* left just past the closing quote.
C8_StringLiteral ==
    [][/\ (pc = "lexer" /\ Called /\ Lexer_current(content, pos) = "\"") =>
              IF QuotesAfter(content, pos) = {}
              THEN /\ Last(rets') = Token("Unknown", SubSeq(content, pos + 2, Len(content)))
                   /\ pos' = Len(content)
              ELSE LET close == Min(QuotesAfter(content, pos)) IN
                   /\ Last(rets') = Token("String", SubSeq(content, pos + 2, close))
                   /\ pos' = close + 1
       /\ (pc = "lexer" /\ Called /\ LastWasUnterminated) => Last(rets') = None]_vars

C8_Witness ==
    /\ pc = "lexer"
    /\ content = <<"\"", "\"", "\"", "a">>
    /\ rets = <<Token("String", <<>>), Token("Unknown", <<"a">>), None>>
    /\ pos = 4

\* C9: once a tokenize() call has returned absence, the next call returns
\* absence too and leaves the cursor where it was (so does every later call).
C9_AbsenceIsStable ==
    [][(pc = "lexer" /\ Called /\ Len(rets) >= 1 /\ ~Last(rets).some) =>
          (~Last(rets').some /\ pos' = pos)]_vars

C9_Witness ==
    /\ pc = "lexer"
    /\ Len(rets) >= 3
    /\ rets[Len(rets) - 2].some
    /\ ~rets[Len(rets) - 1].some
    /\ ~rets[Len(rets)].some

\* C10: tokenize() returns absence exactly when every character at or after
\* the cursor is whitespace (or there is none); so on an input of whitespace
\* alone the first call returns absence.
C10_AbsentIffOnlyWhitespace ==
    [][(pc = "lexer" /\ Called) =>
          (~Last(rets').some <=>
              \A i \in (pos + 1)..Len(content) : is_whitespace(content[i]))]_vars

C10_Witness ==
    /\ pc = "lexer"
    /\ content = <<" ", "\n", " ">>
    /\ rets = <<None>>

(***************************************************************************)
(* The tokens a parse() call is about to meet.                             *)
(***************************************************************************)
RECURSIVE Toks(_, _, _)

\* r is what tokenize() returned; k - 1 further tokens follow it.
TokList(s, k, r) == <<r.token>> \o Toks(s, r.pos, k - 1)

\* What the next k calls of tokenize() on s return from position p on.
Toks(s, p, k) == IF k = 0 THEN <<>> ELSE TokList(s, k, tokenize(s, p))

\* The next k tokens of the Parser: its lookahead, if it holds one, then
\* what the Lexer has left.
Upcoming(k) ==
    IF current.some THEN <<current>> \o Toks(content, pos, k - 1)
    ELSE Toks(content, pos, k)

IsKind(t, kind) == t.some /\ t.kind = kind

\* t starts with `id :=`.
StartsDecl(t) == IsKind(t[1], "Identifier") /\ IsKind(t[2], "DeclAssign")

ValueKinds == {"Integer", "Float", "String", "Fn"}

\* t is `id := T` with T a token that starts no value.
NoValue(t) == StartsDecl(t) /\ t[3].some /\ t[3].kind \notin ValueKinds

\* C11: a parse() that meets `id := T`, T a token of a kind other than
\* Integer, Float, String and Fn, fails with UnexpectedToken carrying T.
C11_UnexpectedValueToken ==
    [][(pc = "parser" /\ Called /\ NoValue(Upcoming(3)))
          => Last(rets') = Err(UnexpectedToken(Upcoming(3)[3]))]_vars

C11_Witness ==
    /\ content = <<"x", " ", ":", "=", " ", ";">>
    /\ rets = <<Err(UnexpectedToken(Token("Semi", <<";">>)))>>

\* t is an Identifier and then the end of the input.
LoneIdentifier(t) == IsKind(t[1], "Identifier") /\ ~t[2].some

\* C12: a parse() whose current token is an Identifier that is the last
\* token of the input fails with MissingTokenAfter carrying that Identifier.
C12_IdentifierAtEnd ==
    [][(pc = "parser" /\ Called /\ LoneIdentifier(Upcoming(2)))
          => Last(rets') = Err(MissingTokenAfter(Upcoming(2)[1]))]_vars

C12_Witness ==
    /\ content = <<"x">>
    /\ rets = <<Err(MissingTokenAfter(Token("Identifier", <<"x">>)))>>

\* Each text `x := fn <between> { <rest>` with what the first parse() of
\* the same text without <between> returns.
FnPairs ==
    {<<FnText(between, rest), parse(FnText(<<>>, rest), None, 0).res>> :
        between \in BetweenSeqs, rest \in StringsUpTo(RestLexemes, MaxRest)}

IsPlainFunction(res) ==
    res.ok => /\ res.value.value.params = <<>>
              /\ res.value.value.return_type = "Void"

\* C13: the result of parsing a function literal is the same whatever
\* tokens other than `{` stand between `fn` and the first `{`, and the
\* Function it yields has no params and return type Void.
C13_BetweenIsIgnored ==
    (content \in FnInputs /\ pc = "parser" /\ rets # <<>>)
        => <<content, rets[1]>> \in FnPairs /\ IsPlainFunction(rets[1])

\* The text of a number token reads as a float: at most one dot and at
\* least one digit.
ValidNumber(v) ==
    /\ Cardinality({i \in DOMAIN v : v[i] = "."}) <= 1
    /\ \E i \in DOMAIN v : v[i] \in DigitOrDot \ {"."}

IsNumberToken(t) == t.some /\ t.kind \in {"Integer", "Float"}

\* t is `id := V` with V a string literal or a number literal.
LiteralDecl(t) ==
    /\ StartsDecl(t)
    /\ IsKind(t[3], "String") \/ (IsNumberToken(t[3]) /\ ValidNumber(t[3].value))

\* t is `id := fn { }`.
EmptyFnDecl(t) ==
    /\ StartsDecl(t)
    /\ IsKind(t[3], "Fn") /\ IsKind(t[4], "LeftCurly") /\ IsKind(t[5], "RightCurly")

\* What C14 says of a parse() that meets the tokens t and returns res.
SemiRule(t, res) ==
    /\ LiteralDecl(t) =>
          /\ res.ok <=> IsKind(t[4], "Semi")
          /\ (t[4].some /\ t[4].kind # "Semi") => res = Err(UnexpectedToken(t[4]))
          /\ ~t[4].some => ~res.ok /\ res.error.kind = "MissingTokenAfter"
    /\ EmptyFnDecl(t) => res.ok

\* C14: a parse() that meets `id := V`, V a number or string literal,
\* succeeds only if the token after V is a Semi; a token of another kind
\* there gives UnexpectedToken carrying that token, the end of the input
\* gives MissingTokenAfter; after a function literal no Semi is needed.
C14_SemiAfterLiteral ==
    [][(pc = "parser" /\ Called) => SemiRule(Upcoming(5), Last(rets'))]_vars

C14_Witness ==
    /\ content = <<"x", " ", ":", "=", " ", "\"", "a", "\"", " ", "x">>
    /\ rets = <<Err(UnexpectedToken(Token("Identifier", <<"x">>)))>>

\* What C15 says of a parse() that meets the tokens t, returns res and
\* leaves the lookahead cur.
NumberRule(t, res, cur) ==
    (StartsDecl(t) /\ IsNumberToken(t[3])) =>
        IF ValidNumber(t[3].value)
        THEN /\ cur = t[4]
             /\ res.ok => res.value.value.type = "Number"
        ELSE /\ res = Err(InvalidNumber(t[3]))
             /\ cur = t[3]

\* C15: a parse() that meets `id := N`, N an Integer or Float token, fails
\* with InvalidNumber carrying N and leaves N as the lookahead when the text
\* of N has two or more dots or no digit; otherwise the value is a Number
\* and the lookahead becomes the token after N.
C15_InvalidNumber ==
    [][(pc = "parser" /\ Called) => NumberRule(Upcoming(4), Last(rets'), current')]_vars

C15_Witness ==
    /\ content = <<"x", " ", ":", "=", " ", "1", ".", "1", ".", "1", " ", ";">>
    /\ rets = <<Err(InvalidNumber(Token("Float", <<"1", ".", "1", ".", "1">>)))>>
    /\ current = Token("Float", <<"1", ".", "1", ".", "1">>)

\* The declaration `f := fn() { <body> }` stands for.
NestedExpr(body) ==
    Declaration(<<"f">>, Function(<<>>, "Void", [i \in DOMAIN body |-> ExpectedExpr(body[i])]))

\* Each text `f := fn() { <body> }` with the result it stands for.
NestedPairs ==
    {<<NestedText(body, sep), Ok(NestedExpr(body))>> : body \in NestedBodies, sep \in Seps}

\* C16: the first parse() of `f := fn() { d1 ... dn }`, the di well-formed
\* declarations of literals or of functions, returns the Declaration of a
\* Function whose body holds the expression of each di, in order.
C16_NestedBodyInOrder ==
    (content \in NestedInputs /\ pc = "parser" /\ rets # <<>>)
        => <<content, rets[1]>> \in NestedPairs

Letters ==
    {"a", "b", "c", "d", "e", "f", "g", "h", "i", "j", "k", "l", "m", "n", "o", "p", "q",
     "r", "s", "t", "u", "v", "w", "x", "y", "z",
     "A", "B", "C", "D", "E", "F", "G", "H", "I", "J", "K", "L", "M", "N", "O", "P", "Q",
     "R", "S", "T", "U", "V", "W", "X", "Y", "Z"}

LettersAndDigits == Letters \cup (DigitOrDot \ {"."})

KeywordTexts == {<<"f", "n">>, <<"m", "u", "t">>, <<"i", "f">>, <<"e", "l", "s", "e">>}

\* The first position after start that holds no letter and no digit.
WordEnd(s, start) ==
    Min({i \in (start + 1)..Len(s) : i = Len(s) \/ s[i + 1] \notin LettersAndDigits})

\* C17: when the first non-whitespace character at or after the cursor is
\* a letter or an underscore, tokenize returns that character and the
\* letters and digits that follow it, up to the first character that is
\* no letter or digit or that is an underscore, and leaves the cursor
\* there; the token is an Identifier unless its text is a keyword.  So
\* `a_a1` gives Identifier `a`, then Identifier `_a1`.
C17_IdentifierStopsAtUnderscore ==
    [][LET start == FirstNonWs(content, pos)
           end   == WordEnd(content, start)
       IN  (pc = "lexer" /\ Called /\ start < Len(content)
               /\ content[start + 1] \in Letters \cup {"_"}) =>
               /\ Last(rets').some
               /\ Last(rets').value = SubSeq(content, start + 1, end)
               /\ pos' = end
               /\ Last(rets').value \notin KeywordTexts => Last(rets').kind = "Identifier"]_vars

C17_Witness ==
    /\ pc = "lexer"
    /\ content = <<"a", "_", "a", "1">>
    /\ rets = <<Token("Identifier", <<"a">>), Token("Identifier", <<"_", "a", "1">>)>>
    /\ pos = 4

\* How many of the calls made so far returned a token.
TokensReturned == Cardinality({i \in DOMAIN rets : rets[i].some})

\* How many turns of its loop main has printed an expression in.
TurnsTaken == Len(stdout) - 3

\* C18: the cursor stays within 0..n, n the length of the input, it never
\* moves back, and it moves on by at least 1 in every tokenize() that
\* returns a token, so at most n calls return a token; every turn of
\* main's loop that does not leave the loop moves the cursor on, so main
\* takes at most n such turns and then leaves the loop.
C18_CursorAndTermination ==
    /\ [](pos \in 0..Len(content))
    /\ [][pos' >= pos]_vars
    /\ [][(pc = "lexer" /\ Called /\ Last(rets').some) => pos' >= pos + 1]_vars
    /\ [](pc = "lexer" => TokensReturned <= Len(content))
    /\ [][(pc = "loop" /\ pc' = "loop") => pos' >= pos + 1]_vars
    /\ [](pc = "loop" => TurnsTaken <= Len(content))

C18_Witness ==
    /\ pc = "lexer"
    /\ content = <<"a", "_", ".", "_">>
    /\ pos = Len(content)
    /\ TokensReturned = Len(content)

\* C19: a parse() called while the lookahead holds a token of a kind other
\* than Identifier fails with UnexpectedToken carrying that token and
\* leaves the lookahead and the cursor as they were, so the calls after it
\* return the same error.
C19_NoProgressOnUnexpected ==
    [][(pc = "parser" /\ Called /\ current.some /\ current.kind # "Identifier") =>
           /\ Last(rets') = Err(UnexpectedToken(current))
           /\ current' = current
           /\ pos' = pos]_vars

C19_Witness ==
    /\ pc = "parser"
    /\ content = <<"x", ":", "=", "5", ";", "x", ":", "=", "5", ";">>
    /\ Len(rets) = 3
    /\ rets[1].ok
    /\ rets[2] = Err(UnexpectedToken(Token("Semi", <<";">>)))
    /\ rets[3] = rets[2]
    /\ current = Token("Semi", <<";">>)
    /\ pos = 5

\* C20: no call of tokenize() or parse(), on any input and after any calls,
\* unwraps an absent value or looks up a key the symbol table lacks: every
\* call returns.
C20_NoPanic == pc # "panic"

C20_Witness ==
    /\ pc = "parser"
    /\ content = <<"x", " ", ":", "=", " ", "f", "n", " ", "{", " ", "}">>
    /\ Len(rets) = 2
    /\ rets[1] = Ok(Declaration(<<"x">>, Function(<<>>, "Void", <<>>)))
    /\ rets[2] = Err(NoMoreTokens)
====
